---- MODULE Spec2Model ----
(***************************************************************************)
(* State-machine model of youtube_audio_transcribe.py.                     *)
(*                                                                         *)
(* Strings (titles, paths, file contents) are sequences of one-character   *)
(* strings, so that strip, re.sub, os.path.join, os.path.splitext and      *)
(* str.endswith are computed character by character as the library does.   *)
(* The file system is a function from absolute paths to file contents.     *)
(* The external collaborators (yt-dlp, moviepy, the recognition backend)   *)
(* are inputs: what yt-dlp prints is fixed in Init, the outcome of each     *)
(* download and of each recognition request is chosen when it is made.     *)
(***************************************************************************)
EXTENDS Integers, Sequences, FiniteSets, TLC

VARIABLES
    single_video_download,  \* the integer typed at the first prompt
    stdout,                 \* what `yt-dlp --get-title` prints
    data,                   \* the document `yt-dlp -J --flat-playlist` prints
    pc,                     \* position of the __main__ block
    error,                  \* the exception that ended the run, or "none"
    fs,                     \* files on disk: absolute path -> contents
    dirs,                   \* directories created by os.makedirs
    video_title,            \* __main__'s video_title (single-video branch)
    folder_path,            \* __main__'s folder_path (single-video branch)
    filename,               \* __main__'s filename (playlist title)
    subfolder_path,         \* __main__'s subfolder_path (playlist branch)
    titles,                 \* __main__'s titles
    urls,                   \* __main__'s urls
    idx,                    \* position of the zip(urls, titles) loop
    fetches,                \* history: the download_video calls made
    results,                \* history: the convert_audio_to_text calls made
    pre                     \* history: <<the files on disk when merge_text_files was called>>

vars == <<single_video_download, stdout, data, pc, error, fs, dirs, video_title,
          folder_path, filename, subfolder_path, titles, urls, idx, fetches,
          results, pre>>

----------------------------------------------------------------------------
(* Bounds *)

MaxTitleLen == 3    \* longest output of `yt-dlp --get-title` explored
MaxEntries == 2     \* longest playlist explored
MaxFiles == 3       \* most files in a directory handed to merge_text_files

----------------------------------------------------------------------------
(* Strings *)

\* the characters `yt-dlp --get-title` can print in the model
TitleChars == {"a", "b", " ", "\n", "/", "?", "_"}

\* every string over a character set up to a length
Strings(chars, n) == UNION {[1..k -> chars] : k \in 0..n}

\* the python value None, which is no string
None == <<"None">>

\* the character class of the regular expression [<>:"/\\|?*]
Reserved == {"<", ">", ":", "\"", "/", "\\", "|", "?", "*"}

\* the ASCII characters str.strip() removes (\x0b is not writable here)
Whitespace == {" ", "\t", "\n", "\r", "\f"}

RECURSIVE lstrip(_)
lstrip(s) == IF s # <<>> /\ Head(s) \in Whitespace THEN lstrip(Tail(s)) ELSE s

RECURSIVE rstrip(_)
rstrip(s) ==
    IF s # <<>> /\ s[Len(s)] \in Whitespace THEN rstrip(SubSeq(s, 1, Len(s) - 1)) ELSE s

strip(s) == rstrip(lstrip(s))

\* re_sub with the question mark missing from the character class
re_sub_without_question_mark(s) ==
    [i \in 1..Len(s) |-> IF s[i] \in Reserved \ {"?"} THEN "_" ELSE s[i]]

\* re.sub(r'[<>:"/\\|?*]', '_', s)
re_sub(s) == [i \in 1..Len(s) |-> IF s[i] \in Reserved THEN "_" ELSE s[i]]

\* str.endswith
endswith(s, suffix) ==
    /\ Len(s) >= Len(suffix)
    /\ SubSeq(s, Len(s) - Len(suffix) + 1, Len(s)) = suffix

\* str.rfind of one character: the last (1-based) position, 0 when absent
rfind(s, c) ==
    LET hits == {i \in 1..Len(s) : s[i] = c}
    IN  IF hits = {} THEN 0 ELSE CHOOSE i \in hits : \A j \in hits : j <= i

MP3 == <<".", "m", "p", "3">>
WAV == <<".", "w", "a", "v">>
TXT == <<".", "t", "x", "t">>
FILENAMES_TXT == <<"f", "i", "l", "e", "n", "a", "m", "e", "s">> \o TXT

----------------------------------------------------------------------------
(* Paths (posixpath) *)

\* os.getcwd()
Cwd == <<"/", "w">>

\* os.path.join(a, b)
join(a, b) ==
    IF b # <<>> /\ Head(b) = "/" THEN b
    ELSE IF a = <<>> \/ a[Len(a)] = "/" THEN a \o b
    ELSE a \o <<"/">> \o b

\* os.path.basename(p)
basename(p) == SubSeq(p, rfind(p, "/") + 1, Len(p))

\* os.path.splitext(p)[0]: the extension starts at the last dot of the last
\* component, unless only dots precede it there
splitext0(p) ==
    LET sepIndex == rfind(p, "/")
        dotIndex == rfind(p, ".")
    IN  IF /\ dotIndex > sepIndex
           /\ \E k \in (sepIndex + 1)..(dotIndex - 1) : p[k] # "."
        THEN SubSeq(p, 1, dotIndex - 1)
        ELSE p

\* the file a path names when opened with the process in Cwd
abspath(p) == join(Cwd, p)

----------------------------------------------------------------------------
(* Files *)

NoFiles == [p \in {} |-> <<>>]

\* open(p, "w").write(c), or a tool writing the file p
write(f, p, c) == [q \in DOMAIN f \cup {p} |-> IF q = p THEN c ELSE f[q]]

\* os.remove(p)
remove(f, p) == [q \in DOMAIN f \ {p} |-> f[q]]

\* contents of the files the external tools write
MP3Data == <<"ID3">>
WAVData == <<"RIFF">>

\* os.listdir(d): the names of the files directly in d
listdir(f, d) ==
    {basename(p) : p \in {q \in DOMAIN f : q = join(d, basename(q))}}

----------------------------------------------------------------------------
(* The functions of the program *)

\* get_video_title: decode what the tool printed, strip it, replace the
\* reserved characters (the characters of the model are ASCII, which
\* bytes.decode() maps to themselves)
get_video_title(out) == re_sub(strip(out))

\* download_video, the tool exiting with status 0: yt-dlp fills %(ext)s of
\* the output template os.path.join(directory, f'{video_title}.%(ext)s')
\* with mp3
download_video(f, link, directory, title) ==
    write(f, join(directory, title \o MP3), MP3Data)

\* download_playlist collecting the urls from the last entry to the first
download_playlist_urls_reversed(d) ==
    <<d.title,
      [i \in 1..Len(d.entries) |-> d.entries[i].title],
      [i \in 1..Len(d.entries) |-> d.entries[Len(d.entries) + 1 - i].url]>>

\* download_playlist: <<playlist_title, titles, urls>> of the parsed document
download_playlist(d) ==
    <<d.title,
      [i \in 1..Len(d.entries) |-> d.entries[i].title],
      [i \in 1..Len(d.entries) |-> d.entries[i].url]>>

\* temp_wav_path of convert_audio_to_text
temp_wav_path(audio_file) == splitext0(audio_file) \o WAV

\* convert_audio_to_text with an except clause that catches every error of
\* the recognizer
convert_audio_to_text_catch_all(f, audio_file, title, outcome) ==
    LET wav == temp_wav_path(audio_file)
        f1 == write(f, wav, WAVData)
    IN  IF audio_file \notin DOMAIN f
        THEN [fs |-> f, raised |-> "OSError"]
        ELSE IF outcome.kind \in {"RequestError", "UnknownValueError"}
        THEN [fs |-> f1, raised |-> "none"]
        ELSE IF title # None /\ title # <<>>
        THEN [fs |-> remove(write(f1, abspath(title \o TXT), outcome.text), wav),
              raised |-> "none"]
        ELSE [fs |-> f1, raised |-> "TypeError"]

\* convert_audio_to_text removing the audio file it was given along with
\* the waveform file
convert_audio_to_text_remove_audio(f, audio_file, title, outcome) ==
    LET wav == temp_wav_path(audio_file)
        f1 == write(f, wav, WAVData)
    IN  IF audio_file \notin DOMAIN f
        THEN [fs |-> f, raised |-> "OSError"]
        ELSE IF outcome.kind = "RequestError"
        THEN [fs |-> f1, raised |-> "none"]
        ELSE IF outcome.kind = "UnknownValueError"
        THEN [fs |-> f1, raised |-> "UnknownValueError"]
        ELSE IF title # None /\ title # <<>>
        THEN [fs |-> remove(remove(write(f1, abspath(title \o TXT), outcome.text),
                                   wav), audio_file),
              raised |-> "none"]
        ELSE [fs |-> f1, raised |-> "TypeError"]

\* convert_audio_to_text: the files on disk when the call ends and the
\* exception it raised ("none" when it returned).  `outcome` is what
\* recognizer.recognize_google did.  The with statement rebinds the name
\* audio_file to the speech_recognition.AudioFile object, so without a
\* (non-empty) video_title os.path.splitext(audio_file) is applied to that
\* object and raises TypeError.
convert_audio_to_text(f, audio_file, title, outcome) ==
    LET wav == temp_wav_path(audio_file)
        f1 == write(f, wav, WAVData)
    IN  IF audio_file \notin DOMAIN f
        THEN [fs |-> f, raised |-> "OSError"]
        ELSE IF outcome.kind = "RequestError"
        THEN [fs |-> f1, raised |-> "none"]
        ELSE IF outcome.kind = "UnknownValueError"
        THEN [fs |-> f1, raised |-> "UnknownValueError"]
        ELSE IF title # None /\ title # <<>>
        THEN [fs |-> remove(write(f1, abspath(title \o TXT), outcome.text), wav),
              raised |-> "none"]
        ELSE [fs |-> f1, raised |-> "TypeError"]

\* text_files without the exclusion of filenames.txt
text_files_with_manifest(f, directory, merged_file_name) ==
    {file \in listdir(f, directory) :
        /\ endswith(file, TXT)
        /\ file # merged_file_name \o TXT}

\* text_files of merge_text_files
text_files(f, directory, merged_file_name) ==
    {file \in listdir(f, directory) :
        /\ endswith(file, TXT)
        /\ file # merged_file_name \o TXT
        /\ file # FILENAMES_TXT}

\* what merge_text_files writes for the files `order`, in that order
RECURSIVE sections(_, _, _)
sections(f, directory, order) ==
    IF order = <<>> THEN <<>>
    ELSE <<"/", "/", " ">> \o Head(order) \o <<"\n">>
            \o f[join(directory, Head(order))] \o <<"\n", "\n">>
            \o sections(f, directory, Tail(order))

RECURSIVE remove_all(_, _, _)
remove_all(f, directory, order) ==
    IF order = <<>> THEN f
    ELSE remove_all(remove(f, join(directory, Head(order))), directory, Tail(order))

\* the orders in which os.listdir can yield a set of names
listings(S) ==
    {o \in [1..Cardinality(S) -> S] : \A i, j \in DOMAIN o : o[i] = o[j] => i = j}

\* merge_text_files, os.listdir having yielded text_files in `order`
merge_text_files(f, directory, merged_file_name, order) ==
    LET merged_file == join(directory, merged_file_name \o TXT)
    IN  remove_all(write(f, merged_file, sections(f, directory, order)),
                   directory, order)

----------------------------------------------------------------------------
(* Inputs *)

\* titles and locators of playlist members, and playlist titles; none has a
\* "/" or a leading dot, so every file lies directly in its folder
EntryTitles == {<<"a">>, <<"b", "?">>}
EntryUrls == {<<"u", "1">>, <<"u", "2">>}
PlaylistTitles == {<<"L">>, <<"M">> \o TXT}
Entries == [title : EntryTitles, url : EntryUrls]
Playlists ==
    [title : PlaylistTitles,
     entries : UNION {[1..n -> Entries] : n \in 0..MaxEntries}]
NoPlaylist == [title |-> <<>>, entries |-> <<>>]

\* what the recognition backend can do with one request
Texts == {<<"h", "i">>, <<"y", "o">>}
Outcomes ==
    [kind : {"text"}, text : Texts]
        \cup [kind : {"RequestError", "UnknownValueError"}, text : {<<>>}]

----------------------------------------------------------------------------
(* The __main__ block *)

Blank ==
    /\ pc = "start"
    /\ error = "none"
    /\ fs = NoFiles
    /\ dirs = {Cwd}
    /\ video_title = None
    /\ folder_path = None
    /\ filename = None
    /\ subfolder_path = None
    /\ titles = <<>>
    /\ urls = <<>>
    /\ idx = 1
    /\ fetches = <<>>
    /\ results = <<>>
    /\ pre = <<>>

Init ==
    /\ single_video_download \in {1, 2, 3}
    /\ stdout \in IF single_video_download = 1
                  THEN Strings(TitleChars, MaxTitleLen) ELSE {<<>>}
    /\ data \in IF single_video_download = 2 THEN Playlists ELSE {NoPlaylist}
    /\ Blank

\* the locator typed at the second prompt
link == <<"u", "0">>

\* the record kept of one download_video call
Fetch(l, directory, title, ok) ==
    [link |-> l, directory |-> directory, video_title |-> title, ok |-> ok]

\* lines 125-129
SingleSetup ==
    /\ pc = "start"
    /\ single_video_download = 1
    /\ video_title' = get_video_title(stdout)
    /\ folder_path' = join(Cwd, video_title')
    /\ dirs' = dirs \cup {folder_path'}
    /\ pc' = "single_download"
    /\ UNCHANGED <<single_video_download, stdout, data, error, fs, filename,
                   subfolder_path, titles, urls, idx, fetches, results, pre>>

\* line 130; check=True raises CalledProcessError when the tool fails
SingleDownload ==
    /\ pc = "single_download"
    /\ \E ok \in BOOLEAN :
        IF ok
        THEN /\ fs' = download_video(fs, link, folder_path, video_title)
             /\ pc' = "single_convert"
             /\ error' = error
        ELSE /\ pc' = "crashed"
             /\ error' = "CalledProcessError"
             /\ fs' = fs
    /\ fetches' = Append(fetches, Fetch(link, folder_path, video_title, pc' # "crashed"))
    /\ UNCHANGED <<single_video_download, stdout, data, dirs, video_title,
                   folder_path, filename, subfolder_path, titles, urls, idx,
                   results, pre>>

\* the record kept of one convert_audio_to_text call
Call(audio_file, title, outcome, raised) ==
    [audio_file |-> audio_file, video_title |-> title, kind |-> outcome.kind,
     text |-> outcome.text, raised |-> raised]

\* line 131
SingleConvert ==
    /\ pc = "single_convert"
    /\ \E outcome \in Outcomes :
        LET audio_file == join(folder_path, video_title \o MP3)
            r == convert_audio_to_text(fs, audio_file, video_title, outcome)
        IN  /\ fs' = r.fs
            /\ error' = r.raised
            /\ pc' = IF r.raised = "none" THEN "done" ELSE "crashed"
            /\ results' = Append(results, Call(audio_file, video_title, outcome, r.raised))
    /\ UNCHANGED <<single_video_download, stdout, data, dirs, video_title,
                   folder_path, filename, subfolder_path, titles, urls, idx,
                   fetches, pre>>

\* lines 133-143: resolve the playlist, make its folder, write the manifest
PlaylistSetup ==
    /\ pc = "start"
    /\ single_video_download = 2
    /\ LET r == download_playlist(data)
           folder_name == splitext0(basename(r[1]))
       IN  /\ filename' = r[1]
           /\ titles' = r[2]
           /\ urls' = r[3]
           /\ subfolder_path' = join(Cwd, folder_name)
    /\ dirs' = dirs \cup {subfolder_path'}
    /\ LET RECURSIVE lines(_)
           lines(ts) == IF ts = <<>> THEN <<>>
                        ELSE Head(ts) \o <<"\n">> \o lines(Tail(ts))
       IN  fs' = write(fs, join(subfolder_path', filename'), lines(titles'))
    /\ pc' = IF Len(titles') = 0 THEN "merge" ELSE "playlist_download"
    /\ UNCHANGED <<single_video_download, stdout, data, error, video_title,
                   folder_path, idx, fetches, results, pre>>

\* line 146, for the idx-th pair of zip(urls, titles)
PlaylistDownload ==
    /\ pc = "playlist_download"
    /\ \E ok \in BOOLEAN :
        IF ok
        THEN /\ fs' = download_video(fs, urls[idx], subfolder_path, titles[idx])
             /\ pc' = "playlist_convert"
             /\ error' = error
        ELSE /\ pc' = "crashed"
             /\ error' = "CalledProcessError"
             /\ fs' = fs
    /\ fetches' = Append(fetches, Fetch(urls[idx], subfolder_path, titles[idx],
                                        pc' # "crashed"))
    /\ UNCHANGED <<single_video_download, stdout, data, dirs, video_title,
                   folder_path, filename, subfolder_path, titles, urls, idx,
                   results, pre>>

\* line 147, then the loop's next iteration or its end
PlaylistConvert ==
    /\ pc = "playlist_convert"
    /\ \E outcome \in Outcomes :
        LET audio_file == join(subfolder_path, titles[idx] \o MP3)
            r == convert_audio_to_text(fs, audio_file, None, outcome)
        IN  /\ fs' = r.fs
            /\ error' = r.raised
            /\ pc' = IF r.raised # "none" THEN "crashed"
                     ELSE IF idx < Len(titles) THEN "playlist_download"
                     ELSE "merge"
            /\ idx' = IF r.raised = "none" THEN idx + 1 ELSE idx
            /\ results' = Append(results, Call(audio_file, None, outcome, r.raised))
    /\ UNCHANGED <<single_video_download, stdout, data, dirs, video_title,
                   folder_path, filename, subfolder_path, titles, urls,
                   fetches, pre>>

\* line 149
Merge ==
    /\ pc = "merge"
    /\ pre' = <<fs>>
    /\ \E order \in listings(text_files(fs, subfolder_path, filename)) :
        fs' = merge_text_files(fs, subfolder_path, filename, order)
    /\ pc' = "done"
    /\ UNCHANGED <<single_video_download, stdout, data, error, dirs,
                   video_title, folder_path, filename, subfolder_path, titles,
                   urls, idx, fetches, results>>

\* lines 150-151
InvalidOption ==
    /\ pc = "start"
    /\ single_video_download \notin {1, 2}
    /\ pc' = "done"
    /\ UNCHANGED <<single_video_download, stdout, data, error, fs, dirs,
                   video_title, folder_path, filename, subfolder_path, titles,
                   urls, idx, fetches, results, pre>>

Next ==
    \/ SingleSetup
    \/ SingleDownload
    \/ SingleConvert
    \/ PlaylistSetup
    \/ PlaylistDownload
    \/ PlaylistConvert
    \/ Merge
    \/ InvalidOption

Spec == Init /\ [][Next]_vars

----------------------------------------------------------------------------
(* merge_text_files on an arbitrary directory *)

\* names of the files the directory may hold, and their contents
MergeNames ==
    {<<"a">> \o TXT, <<"b">> \o TXT, FILENAMES_TXT, <<"M">> \o TXT, <<"c">> \o MP3}
MergeTexts == {<<>>, <<"x">>, <<"y", "\n">>}
MergedFileNames == {<<"M">>, <<"a">>}
MergeDirectory == join(Cwd, <<"d">>)

InitMerge ==
    /\ single_video_download = 2
    /\ stdout = <<>>
    /\ data = NoPlaylist
    /\ pc = "merge"
    /\ error = "none"
    /\ \E names \in SUBSET MergeNames :
        /\ Cardinality(names) <= MaxFiles
        /\ fs \in [{join(MergeDirectory, n) : n \in names} -> MergeTexts]
    /\ dirs = {Cwd, MergeDirectory}
    /\ video_title = None
    /\ folder_path = None
    /\ filename \in MergedFileNames
    /\ subfolder_path = MergeDirectory
    /\ titles = <<>>
    /\ urls = <<>>
    /\ idx = 1
    /\ fetches = <<>>
    /\ results = <<>>
    /\ pre = <<>>

NextMerge == Merge

SpecMerge == InitMerge /\ [][NextMerge]_vars

----------------------------------------------------------------------------
(* Properties *)

\* the transcript file of a convert_audio_to_text call: title.txt when a
\* title was supplied, the audio file's name with .txt otherwise
TranscriptPath(r) ==
    IF r.video_title # None /\ r.video_title # <<>>
    THEN abspath(r.video_title \o TXT)
    ELSE splitext0(r.audio_file) \o TXT

\* the waveform file of a call: the audio file's name with .wav
WaveformPath(r) == splitext0(r.audio_file) \o WAV

\* the last convert_audio_to_text call has ended and nothing ran since
CallJustEnded ==
    /\ Len(results) >= 1
    /\ Len(fetches) = Len(results)
    /\ pre = <<>>

NoReserved(s) == \A i \in DOMAIN s : s[i] \notin Reserved

\* C1: whenever convert_audio_to_text ends after the backend returned text
\* (title supplied or not), the waveform file does not exist and the
\* transcript file exists and holds exactly the returned text.  (Stated of
\* the calls with a non-empty title and of those with none.)
C1_CleanupOnSuccess ==
    (/\ CallJustEnded
     /\ results[Len(results)].kind = "text"
     /\ results[Len(results)].video_title # <<>>) =>
        LET r == results[Len(results)]
        IN  /\ WaveformPath(r) \notin DOMAIN fs
            /\ TranscriptPath(r) \in DOMAIN fs
            /\ fs[TranscriptPath(r)] = r.text

\* C2: a playlist run with at least one entry in which every download
\* succeeds and the backend returns text for every item ends after the merge
\* step, every pair processed, with <PlaylistTitle>.txt in the playlist
\* folder (stated of the run's final state).
C2_PlaylistReachesMerge ==
    (/\ single_video_download = 2
     /\ Len(data.entries) >= 1
     /\ pc \in {"done", "crashed"}
     /\ \A k \in DOMAIN fetches : fetches[k].ok
     /\ \A i \in DOMAIN results : results[i].kind = "text")
    => /\ pc = "done"
       /\ pre # <<>>
       /\ Len(results) = Len(data.entries)
       /\ join(subfolder_path, filename \o TXT) \in DOMAIN fs

\* C3: a single-video run in which title resolution, fetch and recognition
\* succeed ends with exactly one transcript file, at
\* ./<SanitizedTitle>/<SanitizedTitle>.txt beside the .mp3, and no merge.
C3_SingleTranscriptInTitleDir ==
    (/\ single_video_download = 1
     /\ pc = "done"
     /\ video_title # <<>>
     /\ results[1].kind = "text")
    => LET transcript == join(join(Cwd, video_title), video_title \o TXT)
       IN  /\ {p \in DOMAIN fs : endswith(p, TXT)} = {transcript}
           /\ join(join(Cwd, video_title), video_title \o MP3) \in DOMAIN fs
           /\ pre = <<>>

\* one section of a merged file: header line, contents, blank line
Section(name, contents) ==
    <<"/", "/", " ">> \o name \o <<"\n">> \o contents \o <<"\n", "\n">>

RECURSIVE Concat(_)
Concat(ss) == IF ss = <<>> THEN <<>> ELSE Head(ss) \o Concat(Tail(ss))

\* the .txt files of the directory before the merge, other than name.txt and
\* filenames.txt
Included ==
    {n \in {basename(p) : p \in {q \in DOMAIN pre[1] : q = join(subfolder_path, basename(q))}} :
        /\ Len(n) >= 4
        /\ SubSeq(n, Len(n) - 3, Len(n)) = <<".", "t", "x", "t">>
        /\ n # filename \o <<".", "t", "x", "t">>
        /\ n # <<"f", "i", "l", "e", "n", "a", "m", "e", "s", ".", "t", "x", "t">>}

\* C4: after merge_text_files(directory, name), directory/name.txt holds
\* exactly one section for each included file and nothing else, every
\* included file is gone and every excluded file is still there.
C4_MergeExact ==
    pre # <<>> =>
        LET merged == join(subfolder_path, filename \o TXT)
        IN  /\ merged \in DOMAIN fs
            /\ \E o \in [1..Cardinality(Included) -> Included] :
                /\ \A n \in Included : \E i \in DOMAIN o : o[i] = n
                /\ fs[merged] =
                     Concat([i \in DOMAIN o |->
                                Section(o[i], pre[1][join(subfolder_path, o[i])])])
            /\ \A n \in Included : join(subfolder_path, n) \notin DOMAIN fs
            /\ \A p \in DOMAIN pre[1] :
                basename(p) \notin Included =>
                    /\ p \in DOMAIN fs
                    /\ p # merged => fs[p] = pre[1][p]
            /\ DOMAIN fs \subseteq DOMAIN pre[1] \cup {merged}

C4_Witness ==
    /\ pre # <<>>
    /\ Cardinality(Included) >= 1
    /\ join(subfolder_path, FILENAMES_TXT) \in DOMAIN pre[1]
    /\ join(subfolder_path, filename \o TXT) \in DOMAIN pre[1]

\* C5: when the backend raises RequestError, no transcript file is created
\* for the item, the waveform file stays on disk, the call returns, and a
\* playlist run in which nothing else fails goes on through every item to
\* the merge step (stated of the run's final state).
C5_RequestErrorSkipsItem ==
    \A i \in DOMAIN results :
        results[i].kind = "RequestError" =>
            /\ TranscriptPath(results[i]) \notin DOMAIN fs
            /\ WaveformPath(results[i]) \in DOMAIN fs
            /\ results[i].raised = "none"
            /\ (/\ single_video_download = 2
                /\ pc \in {"done", "crashed"}
                /\ \A k \in DOMAIN fetches : fetches[k].ok
                /\ \A j \in DOMAIN results : results[j].kind # "UnknownValueError")
               => /\ pc = "done"
                  /\ pre # <<>>
                  /\ Len(results) = Len(titles)

C7_FetchTitlesSanitized ==
    \A k \in DOMAIN fetches : NoReserved(fetches[k].video_title)

\* C8: the sanitized title has no reserved character; it is the tool's
\* output without its surrounding whitespace, every other character
\* unchanged and in place; sanitizing it again changes nothing.
C8_Sanitization ==
    (single_video_download = 1 /\ video_title # None) =>
        /\ NoReserved(video_title)
        /\ \E i \in 1..(Len(stdout) + 1), j \in 0..Len(stdout) :
            /\ \A k \in 1..(i - 1) : stdout[k] \in Whitespace
            /\ \A k \in (j + 1)..Len(stdout) : stdout[k] \in Whitespace
            /\ i <= j => (stdout[i] \notin Whitespace /\ stdout[j] \notin Whitespace)
            /\ i > j => (i = Len(stdout) + 1 /\ j = Len(stdout))
            /\ Len(video_title) = IF i <= j THEN j - i + 1 ELSE 0
            /\ \A k \in DOMAIN video_title :
                /\ stdout[i + k - 1] \notin Reserved => video_title[k] = stdout[i + k - 1]
                /\ stdout[i + k - 1] \in Reserved => video_title[k] = "_"
        /\ get_video_title(video_title) = video_title

C8_Witness ==
    /\ video_title # None
    /\ Len(stdout) = 3
    /\ stdout[1] \in Whitespace
    /\ stdout[2] \in Reserved
    /\ stdout[3] \notin Reserved \cup Whitespace
    /\ Len(video_title) = 2

\* C9: download_playlist returns titles and urls as long as the entries,
\* titles[i] and urls[i] those of the i-th entry, and the i-th download uses
\* urls[i] with titles[i].
C9_PairingPreserved ==
    (single_video_download = 2 /\ pc # "start") =>
        /\ Len(titles) = Len(data.entries)
        /\ Len(urls) = Len(data.entries)
        /\ \A i \in DOMAIN data.entries :
            /\ titles[i] = data.entries[i].title
            /\ urls[i] = data.entries[i].url
        /\ Len(fetches) <= Len(data.entries)
        /\ \A k \in DOMAIN fetches :
            /\ fetches[k].link = data.entries[k].url
            /\ fetches[k].video_title = data.entries[k].title

C9_Witness ==
    /\ single_video_download = 2
    /\ Len(fetches) = 2
    /\ data.entries[1].title # data.entries[2].title
    /\ data.entries[1].url # data.entries[2].url

\* C10: when the backend raises UnknownValueError the error leaves
\* convert_audio_to_text and ends the run: no transcript file for the item,
\* no later item processed, no merge.
C10_UnknownValueEndsRun ==
    \A i \in DOMAIN results :
        results[i].kind = "UnknownValueError" =>
            /\ results[i].raised = "UnknownValueError"
            /\ pc = "crashed"
            /\ error = "UnknownValueError"
            /\ TranscriptPath(results[i]) \notin DOMAIN fs
            /\ Len(results) = i
            /\ Len(fetches) = i
            /\ pre = <<>>

C10_Witness ==
    /\ single_video_download = 2
    /\ Len(titles) = 2
    /\ Len(results) = 1
    /\ results[1].kind = "UnknownValueError"

====
